---- MODULE Spec2Model ----
(***************************************************************************)
(* A model of gotel: the metric registry (get-or-create of instruments     *)
(* under one lock), the provider lifecycle (NewProvider / Shutdown), the   *)
(* configuration options, the span wrapper, the scoped paths (WithSpan,    *)
(* the HTTP middleware, the database tracer and its wrappers) and the      *)
(* bootstrap of the common metrics.                                        *)
(***************************************************************************)
EXTENDS Integers, Sequences, FiniteSets, TLC

VARIABLES
    registry,   \* the MetricRegistry: prefix, the four caches, mu
    meter,      \* the metric.Meter behind the registry: instruments, calls
    gs,         \* one record per goroutine calling the registry
    returned,   \* per kind and qualified name, the handles returned so far
    last,       \* the most recent (handle, error) a registry call returned
    nCalls,     \* number of registry calls started
    conf,       \* the config DefaultConfig builds and the options modify
    lastOpt,    \* the option applied last, with its argument
    nOpts,      \* number of options applied
    phase,      \* "config" until NewProvider has run, then "returned"
    p,          \* the Provider struct NewProvider fills in
    sdk,        \* the SDK providers built so far, per signal
    globals,    \* the process-wide default provider per signal
    stages,     \* the stages NewProvider ran, in order
    result,     \* what NewProvider returned: (provider pointer, error)
    nShutdowns, \* number of Shutdown calls made on the returned pointer
    lastShutdown, \* the most recent Shutdown call: its inputs and its outcome
    panicked,   \* a nil pointer was dereferenced
    spans,      \* the spans started so far: what their trace.Span recorded
    lastOp,     \* the most recent call on a Span, with the span as it was before
    nOps,       \* number of calls made on Spans
    applied,    \* per option, how often it was applied
    entries,    \* the header and resource attribute entries supplied, in order
    reqs,       \* one record per goroutine serving a request through Handler
    metrics,    \* what the CommonMetrics instruments recorded
    lastRun,    \* the most recent finished run of WithSpan, Handler or a DB call
    nRuns,      \* number of runs started
    wrappers,   \* the TracedStmt and TracedTx wrappers handed out so far
    cm          \* NewCommonMetrics: its registry, its meter, its position, its result

regVars == <<registry, meter, gs, returned, last, nCalls>>

confVars == <<conf, lastOpt, nOpts, applied, entries>>

provVars == <<phase, p, sdk, globals, stages, result, nShutdowns, lastShutdown, panicked>>

spanVars == <<spans, lastOp, nOps>>

runVars == <<reqs, metrics, lastRun, nRuns, wrappers>>

cmVars == <<cm>>

vars == <<registry, meter, gs, returned, last, nCalls, conf, lastOpt, nOpts,
          phase, p, sdk, globals, stages, result, nShutdowns, lastShutdown, panicked,
          spans, lastOp, nOps, applied, entries, reqs, metrics, lastRun, nRuns, wrappers, cm>>

(***************************************************************************)
(* Bounds                                                                  *)
(***************************************************************************)
NumGoroutines == 2
MaxCalls == 2
MaxOpts == 3
MaxShutdowns == 2
MaxSpans == 2
MaxSpanOps == 3
MaxRuns == 2
NumRequests == 2
MaxBootstraps == 2

Goroutines == 1..NumGoroutines

(***************************************************************************)
(* MetricRegistry                                                          *)
(***************************************************************************)
Kinds == {"counters", "histograms", "upDownCounters", "gauges"}
Names == {"a", "b"}
Prefixes == {"", "app"}
NoCallback == "none"
NilHandle == 0
Unlocked == 0

\* The description and options a caller passes; Gauge also takes a callback.
CallArgs == {[description |-> "d1", callback |-> "cb1"],
             [description |-> "d2", callback |-> "cb2"]}

EmptyMap == [n \in {} |-> NilHandle]

MapPut(m, k, v) == [n \in DOMAIN m \cup {k} |-> IF n = k THEN v ELSE m[n]]

generateMetricName(prefix, name) ==
    IF prefix = "" THEN name ELSE prefix \o "_" \o name

QualifiedNames == {generateMetricName(prefix, name) : prefix \in Prefixes, name \in Names}

Keys == Kinds \X QualifiedNames

NewMetricRegistry(prefix) ==
    [prefix |-> prefix,
     counters |-> EmptyMap,
     histograms |-> EmptyMap,
     upDownCounters |-> EmptyMap,
     gauges |-> EmptyMap,
     mu |-> Unlocked]

\* The meter: the instruments it created, in creation order (a handle is the
\* instrument's position), and how often create was invoked per kind and name.
NewMeter ==
    [instruments |-> <<>>,
     calls |-> [k \in Keys |-> [ok |-> 0, failed |-> 0]]]

IdleGoroutine ==
    [pc |-> "idle", kind |-> "none", metricName |-> "", description |-> "",
     callback |-> NoCallback, overlapped |-> FALSE]

NoReturn ==
    [kind |-> "none", metricName |-> "", description |-> "", overlapped |-> FALSE,
     callback |-> NoCallback,
     handle |-> NilHandle, ok |-> FALSE, hit |-> FALSE]

\* m.mu.Lock(): the caller proceeds only while no goroutine holds mu.
CanLockUnguarded(mu) == TRUE

CanLock(mu) == mu = Unlocked

\* A method that returns on the creation error without unlocking.
UnlockExceptOnError(mu, path) == IF path = "failed" THEN mu ELSE Unlocked

\* defer m.mu.Unlock(): mu after a method has returned on the path "hit",
\* "created" or "failed".
DeferredUnlock(mu, path) == Unlocked

\* A registry whose methods all keep their instruments in m.counters.
CacheOfCounters(kind) == "counters"

\* The map a method of the given kind looks up and stores in: Counter uses
\* m.counters, Histogram m.histograms, UpDownCounter m.upDownCounters and
\* Gauge m.gauges.
CacheOf(kind) == kind

\* if instrument, exists := cache[metricName]; exists
CacheHitNever(cache, metricName) == FALSE

CacheHit(cache, metricName) == metricName \in DOMAIN cache

\* if err != nil { return nil, ... }; cache[metricName] = instrument
CacheAfterCreateAlways(cache, metricName, handle, ok) ==
    MapPut(cache, metricName, handle)

CacheAfterCreate(cache, metricName, handle, ok) ==
    IF ok THEN MapPut(cache, metricName, handle) ELSE cache

\* The entry of a get-or-create method: the qualified name is computed before
\* the lock is taken.  overlapped notes that another call for the same kind
\* and name was already in progress.
Begin(g, kind, name, description, callback) ==
    /\ gs[g].pc = "idle"
    /\ nCalls < MaxCalls
    /\ nCalls' = nCalls + 1
    /\ LET metricName == generateMetricName(registry.prefix, name)
       IN gs' = [gs EXCEPT ![g] =
                [pc |-> "lock", kind |-> kind, metricName |-> metricName,
                 description |-> description, callback |-> callback,
                 overlapped |-> \E h \in Goroutines :
                                    /\ h # g
                                    /\ gs[h].pc # "idle"
                                    /\ gs[h].kind = kind
                                    /\ gs[h].metricName = metricName]]
    /\ UNCHANGED <<registry, meter, returned, last>>
    /\ UNCHANGED <<confVars, provVars, spanVars, runVars, cmVars>>

Counter(g) ==
    \E name \in Names, args \in CallArgs :
        Begin(g, "counters", name, args.description, NoCallback)

Histogram(g) ==
    \E name \in Names, args \in CallArgs :
        Begin(g, "histograms", name, args.description, NoCallback)

UpDownCounter(g) ==
    \E name \in Names, args \in CallArgs :
        Begin(g, "upDownCounters", name, args.description, NoCallback)

Gauge(g) ==
    \E name \in Names, args \in CallArgs :
        Begin(g, "gauges", name, args.description, args.callback)

Lock(g) ==
    /\ gs[g].pc = "lock"
    /\ CanLock(registry.mu)
    /\ registry' = [registry EXCEPT !.mu = g]
    /\ gs' = [gs EXCEPT ![g].pc = "lookup"]
    /\ UNCHANGED <<meter, returned, last, nCalls>>
    /\ UNCHANGED <<confVars, provVars, spanVars, runVars, cmVars>>

Return(g, handle, ok, hit) ==
    [kind |-> gs[g].kind, metricName |-> gs[g].metricName,
     description |-> gs[g].description, overlapped |-> gs[g].overlapped,
     callback |-> gs[g].callback,
     handle |-> handle, ok |-> ok, hit |-> hit]

Returned(g, handle) ==
    [returned EXCEPT ![<<gs[g].kind, gs[g].metricName>>] = @ \cup {handle}]

\* The lookup under the lock; a hit returns the cached handle and the
\* deferred Unlock runs.
Lookup(g) ==
    /\ gs[g].pc = "lookup"
    /\ LET cache == registry[CacheOf(gs[g].kind)]
           metricName == gs[g].metricName
       IN IF CacheHit(cache, metricName)
          THEN /\ last' = Return(g, cache[metricName], TRUE, TRUE)
               /\ returned' = Returned(g, cache[metricName])
               /\ registry' = [registry EXCEPT !.mu = DeferredUnlock(@, "hit")]
               /\ gs' = [gs EXCEPT ![g] = IdleGoroutine]
          ELSE /\ gs' = [gs EXCEPT ![g].pc = "create"]
               /\ UNCHANGED <<registry, returned, last>>
    /\ UNCHANGED <<meter, nCalls>>
    /\ UNCHANGED <<confVars, provVars, spanVars, runVars, cmVars>>

\* The meter's create call on a miss, the store and the return; the deferred
\* Unlock runs on both return paths.  The meter may fail.
Create(g) ==
    /\ gs[g].pc = "create"
    /\ \E ok \in BOOLEAN :
        LET kind == gs[g].kind
            metricName == gs[g].metricName
            key == <<kind, metricName>>
            handle == IF ok THEN Len(meter.instruments) + 1 ELSE NilHandle
        IN /\ meter' = [instruments |->
                            IF ok THEN Append(meter.instruments,
                                              [kind |-> kind, metricName |-> metricName,
                                               description |-> gs[g].description,
                                               callback |-> gs[g].callback])
                            ELSE meter.instruments,
                        calls |-> [meter.calls EXCEPT
                                      ![key] = IF ok THEN [@ EXCEPT !.ok = @ + 1]
                                                     ELSE [@ EXCEPT !.failed = @ + 1]]]
           /\ registry' = [registry EXCEPT
                              ![CacheOf(kind)] = CacheAfterCreate(@, metricName, handle, ok),
                              !.mu = DeferredUnlock(@, IF ok THEN "created" ELSE "failed")]
           /\ last' = Return(g, handle, ok, FALSE)
           /\ returned' = Returned(g, handle)
    /\ gs' = [gs EXCEPT ![g] = IdleGoroutine]
    /\ UNCHANGED nCalls
    /\ UNCHANGED <<confVars, provVars, spanVars, runVars, cmVars>>

InitRegistry ==
    /\ registry \in {NewMetricRegistry(prefix) : prefix \in Prefixes}
    /\ meter = NewMeter
    /\ gs = [g \in Goroutines |-> IdleGoroutine]
    /\ returned = [k \in Keys |-> {}]
    /\ last = NoReturn
    /\ nCalls = 0

NextRegistry ==
    \E g \in Goroutines :
        \/ Counter(g)
        \/ Histogram(g)
        \/ UpDownCounter(g)
        \/ Gauge(g)
        \/ Lock(g)
        \/ Lookup(g)
        \/ Create(g)

(***************************************************************************)
(* config and its options                                                  *)
(*                                                                         *)
(* A float64 is a finite number (in tenths), an infinity or NaN.  Every    *)
(* ordered comparison with NaN is false.                                   *)
(***************************************************************************)
Num(tenths) == [class |-> "num", v |-> tenths]
PosInf == [class |-> "inf", v |-> 1]
NegInf == [class |-> "inf", v |-> -1]
NaN == [class |-> "nan", v |-> 0]

FloatLess(x, y) ==
    /\ x.class # "nan"
    /\ y.class # "nan"
    /\ \/ x.class = "num" /\ y.class = "num" /\ x.v < y.v
       \/ x.class = "inf" /\ x.v < 0 /\ y # x
       \/ y.class = "inf" /\ y.v > 0 /\ y # x

Ratios == {Num(-1), Num(0), Num(5), Num(10), Num(15), PosInf, NegInf, NaN}

NilCredentials == "nil"
Credentials == {NilCredentials, "tls"}

\* A DefaultConfig whose environment is "production".
DefaultConfigProduction(serviceName) ==
    [Debug |-> FALSE,
     Service |-> [Name |-> serviceName, Version |-> "1.0.0",
                  Environment |-> "production"],
     ResourceAttrs |-> EmptyMap,
     Security |-> [Insecure |-> TRUE, TLSCredentials |-> NilCredentials],
     Tracing |-> [SamplingRatio |-> Num(10)],
     Exporter |-> [Endpoint |-> "localhost:4317",
                   BatchTimeout |-> 5,
                   ExportTimeout |-> 30,
                   Headers |-> EmptyMap]]

DefaultConfig(serviceName) ==
    [Debug |-> FALSE,
     Service |-> [Name |-> serviceName, Version |-> "1.0.0",
                  Environment |-> "development"],
     ResourceAttrs |-> EmptyMap,
     Security |-> [Insecure |-> TRUE, TLSCredentials |-> NilCredentials],
     Tracing |-> [SamplingRatio |-> Num(10)],
     Exporter |-> [Endpoint |-> "localhost:4317",
                   BatchTimeout |-> 5,
                   ExportTimeout |-> 30,
                   Headers |-> EmptyMap]]

NoOption == [name |-> "none", arg |-> "none"]

OptionNames ==
    {"WithServiceInfo", "WithEndpoint", "WithHeader", "WithHeaders",
     "WithExportTimeout", "WithBatchTimeout", "WithSamplingRatio",
     "WithResourceAttr", "WithResourceAttrs", "WithDebug", "WithInsecure",
     "WithTLSCredentials"}

\* for _, opt := range opts { opt(conf) }: one option, applied to conf.
\* supplied lists the map entries the option carries.
ApplyOption(name, arg, c, supplied) ==
    /\ phase = "config"
    /\ nOpts < MaxOpts
    /\ nOpts' = nOpts + 1
    /\ lastOpt' = [name |-> name, arg |-> arg]
    /\ applied' = [applied EXCEPT ![name] = @ + 1]
    /\ entries' = entries \o supplied
    /\ conf' = c
    /\ UNCHANGED <<regVars, provVars, spanVars, runVars, cmVars>>

Apply(name, arg, c) == ApplyOption(name, arg, c, <<>>)

\* if ratio < 0.0 { ratio = 0.0 }; if ratio > 1.0 { ratio = 1.0 }
Clamp(ratio) ==
    LET low == IF FloatLess(ratio, Num(0)) THEN Num(0) ELSE ratio
    IN IF FloatLess(Num(10), low) THEN Num(10) ELSE low

WithSamplingRatio ==
    \E ratio \in Ratios :
        Apply("WithSamplingRatio", ratio,
              [conf EXCEPT !.Tracing.SamplingRatio = Clamp(ratio)])

WithDebug ==
    \E debug \in BOOLEAN :
        Apply("WithDebug", debug, [conf EXCEPT !.Debug = debug])

WithInsecure ==
    \E insecure \in BOOLEAN :
        Apply("WithInsecure", insecure,
              [conf EXCEPT !.Security = [Insecure |-> insecure,
                                         TLSCredentials |-> NilCredentials]])

WithTLSCredentials ==
    \E creds \in Credentials :
        Apply("WithTLSCredentials", creds,
              [conf EXCEPT !.Security = [Insecure |-> FALSE,
                                         TLSCredentials |-> creds]])

ServiceInfos ==
    {[name |-> "svc2", version |-> "2.0.0", environment |-> "production"],
     [name |-> "svc", version |-> "1.0.0", environment |-> "staging"]}

WithServiceInfo ==
    \E info \in ServiceInfos :
        Apply("WithServiceInfo", info,
              [conf EXCEPT !.Service = [Name |-> info.name,
                                        Version |-> info.version,
                                        Environment |-> info.environment]])

Endpoints == {"localhost:4317", "collector:4318"}

WithEndpoint ==
    \E endpoint \in Endpoints :
        Apply("WithEndpoint", endpoint, [conf EXCEPT !.Exporter.Endpoint = endpoint])

\* time.Duration values, in seconds
ExportTimeouts == {30, 60}
BatchTimeouts == {5, 10}

WithExportTimeout ==
    \E timeout \in ExportTimeouts :
        Apply("WithExportTimeout", timeout,
              [conf EXCEPT !.Exporter.ExportTimeout = timeout])

WithBatchTimeout ==
    \E timeout \in BatchTimeouts :
        Apply("WithBatchTimeout", timeout,
              [conf EXCEPT !.Exporter.BatchTimeout = timeout])

MapKeys == {"k1", "k2"}
MapVals == {"v1", "v2"}

\* The maps WithHeaders and WithResourceAttrs are called with.
SuppliedMaps ==
    {[k \in {} |-> "v1"],
     [k \in {"k1"} |-> "v2"],
     [k \in {"k1", "k2"} |-> IF k = "k1" THEN "v1" ELSE "v2"]}

\* maps.Copy(dst, src) keeping only what src holds.
MapsCopyReplaces(dst, src) == src

\* maps.Copy(dst, src): every entry of src is stored in dst.
MapsCopy(dst, src) ==
    [k \in DOMAIN dst \cup DOMAIN src |-> IF k \in DOMAIN src THEN src[k] ELSE dst[k]]

Entry(which, key, val) == [map |-> which, key |-> key, val |-> val]

\* The entries of a supplied map; its keys are distinct, so the order in
\* which maps.Copy visits them does not matter.
MapEntries(which, m) ==
    (IF "k1" \in DOMAIN m THEN <<Entry(which, "k1", m["k1"])>> ELSE <<>>)
    \o (IF "k2" \in DOMAIN m THEN <<Entry(which, "k2", m["k2"])>> ELSE <<>>)

WithHeader ==
    \E key \in MapKeys, val \in MapVals :
        ApplyOption("WithHeader", <<key, val>>,
                    [conf EXCEPT !.Exporter.Headers = MapPut(@, key, val)],
                    <<Entry("Headers", key, val)>>)

WithHeaders ==
    \E headers \in SuppliedMaps :
        ApplyOption("WithHeaders", headers,
                    [conf EXCEPT !.Exporter.Headers = MapsCopy(@, headers)],
                    MapEntries("Headers", headers))

WithResourceAttr ==
    \E key \in MapKeys, value \in MapVals :
        ApplyOption("WithResourceAttr", <<key, value>>,
                    [conf EXCEPT !.ResourceAttrs = MapPut(@, key, value)],
                    <<Entry("ResourceAttrs", key, value)>>)

WithResourceAttrs ==
    \E attrs \in SuppliedMaps :
        ApplyOption("WithResourceAttrs", attrs,
                    [conf EXCEPT !.ResourceAttrs = MapsCopy(@, attrs)],
                    MapEntries("ResourceAttrs", attrs))

InitConfig ==
    /\ conf = DefaultConfig("svc")
    /\ lastOpt = NoOption
    /\ nOpts = 0
    /\ applied = [name \in OptionNames |-> 0]
    /\ entries = <<>>

NextConfig ==
    \/ WithServiceInfo
    \/ WithEndpoint
    \/ WithHeader
    \/ WithHeaders
    \/ WithExportTimeout
    \/ WithBatchTimeout
    \/ WithSamplingRatio
    \/ WithResourceAttr
    \/ WithResourceAttrs
    \/ WithDebug
    \/ WithInsecure
    \/ WithTLSCredentials

(***************************************************************************)
(* Provider: NewProvider and Shutdown                                      *)
(***************************************************************************)
Nil == "nil"
NoError == "nil"
Signals == <<"trace", "metric", "log">>
SignalSet == {"trace", "metric", "log"}

\* Where a run of NewProvider fails: nowhere, or at the one call that
\* returns an error.
FailPoints == {"none", "resource", "trace exporter", "metric exporter",
               "log exporter", "zap logger"}

\* Only the trace provider has a sampler.
NoSampler == "none"

NotBuilt == [built |-> FALSE, exporter |-> "none", credentials |-> "none",
             sampler |-> NoSampler, shutdowns |-> 0]

NewProviderStruct ==
    [traceProvider |-> Nil, metricProvider |-> Nil, logProvider |-> Nil,
     traceExporter |-> Nil, metricExporter |-> Nil, logExporter |-> Nil,
     tracer |-> Nil, meter |-> Nil, logger |-> Nil]

\* The state NewProvider works on.
World(pp, s, g, st) == [p |-> pp, sdk |-> s, globals |-> g, stages |-> st, err |-> NoError]

\* if p.config.Debug { stdout exporter } else { OTLP exporter with the
\* insecure credentials or p.config.Security.TLSCredentials }
Exporter(c) ==
    IF c.Debug
    THEN [exporter |-> "stdout", credentials |-> "none"]
    ELSE [exporter |-> "otlp",
          credentials |-> IF c.Security.Insecure THEN "insecure"
                          ELSE c.Security.TLSCredentials]

Built(c, sampler) ==
    [built |-> TRUE, exporter |-> Exporter(c).exporter,
     credentials |-> Exporter(c).credentials, sampler |-> sampler, shutdowns |-> 0]

createResource(w, failAt) ==
    LET ran == [w EXCEPT !.stages = Append(@, "resource")]
    IN IF failAt = "resource"
       THEN [ran EXCEPT !.err = "failed to create resource"]
       ELSE ran

initTracing(w, c, failAt) ==
    LET ran == [w EXCEPT !.stages = Append(@, "tracing")]
    IN IF failAt = "trace exporter"
       THEN [ran EXCEPT !.err = "failed to create trace exporter"]
       ELSE [ran EXCEPT !.sdk.trace = Built(c, c.Tracing.SamplingRatio),
                        !.p.traceProvider = "trace",
                        !.p.traceExporter = Exporter(c).exporter,
                        !.globals.trace = "trace",
                        !.p.tracer = "tracer"]

initMetrics(w, c, failAt) ==
    LET ran == [w EXCEPT !.stages = Append(@, "metrics")]
    IN IF failAt = "metric exporter"
       THEN [ran EXCEPT !.err = "failed to create metric exporter"]
       ELSE [ran EXCEPT !.sdk.metric = Built(c, NoSampler),
                        !.p.metricExporter = Exporter(c).exporter,
                        !.p.metricProvider = "metric",
                        !.globals.metric = "metric",
                        !.p.meter = "meter"]

initLogging(w, c, failAt) ==
    LET ran == [w EXCEPT !.stages = Append(@, "logging")]
        provided == [ran EXCEPT !.sdk.log = Built(c, NoSampler),
                                !.p.logExporter = Exporter(c).exporter,
                                !.p.logProvider = "log",
                                !.globals.log = "log"]
    IN IF failAt = "log exporter"
       THEN [ran EXCEPT !.err = "failed to create log exporter"]
       ELSE IF failAt = "zap logger"
            THEN [provided EXCEPT !.err = "failed to create zap logger"]
            ELSE [provided EXCEPT !.p.logger = "logger"]

Returns(w, pointer, err) == [w |-> w, p |-> pointer, err |-> err]

\* A NewProvider that goes on to the logging stage when initMetrics failed.
NewProviderIgnoringMetricsError(w0, c, failAt) ==
    LET w1 == createResource(w0, failAt)
        w2 == initTracing(w1, c, failAt)
        w3 == initMetrics(w2, c, failAt)
        w4 == initLogging([w3 EXCEPT !.err = NoError], c, failAt)
    IN IF w1.err # NoError THEN Returns(w1, Nil, w1.err)
       ELSE IF w2.err # NoError THEN Returns(w2, Nil, w2.err)
       ELSE IF w4.err # NoError THEN Returns(w4, Nil, w4.err)
       ELSE Returns(w4, "p", NoError)

\* The body of NewProvider: each stage runs only if the ones before it
\* returned no error.
NewProviderBody(w0, c, failAt) ==
    LET w1 == createResource(w0, failAt)
        w2 == initTracing(w1, c, failAt)
        w3 == initMetrics(w2, c, failAt)
        w4 == initLogging(w3, c, failAt)
    IN IF w1.err # NoError THEN Returns(w1, Nil, w1.err)
       ELSE IF w2.err # NoError THEN Returns(w2, Nil, w2.err)
       ELSE IF w3.err # NoError THEN Returns(w3, Nil, w3.err)
       ELSE IF w4.err # NoError THEN Returns(w4, Nil, w4.err)
       ELSE Returns(w4, "p", NoError)

NewProvider ==
    /\ phase = "config"
    /\ \E failAt \in FailPoints :
        LET r == NewProviderBody(World(p, sdk, globals, stages), conf, failAt)
        IN /\ p' = r.w.p
           /\ sdk' = r.w.sdk
           /\ globals' = r.w.globals
           /\ stages' = r.w.stages
           /\ result' = [p |-> r.p, err |-> r.err, failAt |-> failAt]
    /\ phase' = "returned"
    /\ UNCHANGED <<nShutdowns, lastShutdown, panicked>>
    /\ UNCHANGED <<regVars, confVars, spanVars, runVars, cmVars>>

\* The sub-providers Shutdown calls, in order, when those in failing return
\* an error.
ShutdownCalls(failing) == Signals

\* errs after the three calls, stopping at the first failure.
ShutdownErrsFirstOnly(failing) ==
    IF "trace" \in failing THEN <<"failed to shutdown trace provider">>
    ELSE IF "metric" \in failing THEN <<"failed to shutdown metric provider">>
    ELSE IF "log" \in failing THEN <<"failed to shutdown log provider">>
    ELSE <<>>

\* errs after the three calls: one entry per failing sub-provider.
ShutdownErrs(failing) ==
    LET e1 == IF "trace" \in failing
              THEN <<"failed to shutdown trace provider">> ELSE <<>>
        e2 == IF "metric" \in failing
              THEN Append(e1, "failed to shutdown metric provider") ELSE e1
        e3 == IF "log" \in failing
              THEN Append(e2, "failed to shutdown log provider") ELSE e2
    IN e3

ShutdownReturnAlwaysError(errs) == [nil |-> FALSE, errs |-> errs]

ShutdownReturnSwallowed(errs) == [nil |-> TRUE, errs |-> <<>>]

\* if len(errs) > 0 { return fmt.Errorf("shutdown failed with errors: %v", errs) }
\* return nil
ShutdownReturn(errs) ==
    IF Len(errs) > 0 THEN [nil |-> FALSE, errs |-> errs]
    ELSE [nil |-> TRUE, errs |-> <<>>]

NoShutdown ==
    [failing |-> {}, calls |-> <<>>, err |-> [nil |-> TRUE, errs |-> <<>>],
     returned |-> FALSE]

\* Shutdown on the pointer NewProvider returned.  A nil receiver, or a nil
\* sub-provider, is dereferenced and the call panics.
Shutdown ==
    /\ phase = "returned"
    /\ ~panicked
    /\ nShutdowns < MaxShutdowns
    /\ nShutdowns' = nShutdowns + 1
    /\ IF \/ result.p = Nil
          \/ Nil \in {p.traceProvider, p.metricProvider, p.logProvider}
       THEN /\ panicked' = TRUE
            /\ lastShutdown' = NoShutdown
            /\ UNCHANGED sdk
       ELSE \E failing \in SUBSET SignalSet :
            LET calls == ShutdownCalls(failing)
                called == {calls[i] : i \in 1..Len(calls)}
            IN /\ sdk' = [sig \in SignalSet |->
                            IF sig \in called
                            THEN [sdk[sig] EXCEPT !.shutdowns = @ + 1]
                            ELSE sdk[sig]]
               /\ lastShutdown' = [failing |-> failing, calls |-> calls,
                                   err |-> ShutdownReturn(ShutdownErrs(failing)),
                                   returned |-> TRUE]
               /\ UNCHANGED panicked
    /\ UNCHANGED <<phase, p, globals, stages, result>>
    /\ UNCHANGED <<regVars, confVars, spanVars, runVars, cmVars>>

InitProvider ==
    /\ phase = "config"
    /\ p = NewProviderStruct
    /\ sdk = [sig \in SignalSet |-> NotBuilt]
    /\ globals = [sig \in SignalSet |-> Nil]
    /\ stages = <<>>
    /\ result = [p |-> Nil, err |-> NoError, failAt |-> "none"]
    /\ nShutdowns = 0
    /\ lastShutdown = NoShutdown
    /\ panicked = FALSE

NextProvider ==
    \/ WithSamplingRatio
    \/ WithDebug
    \/ WithInsecure
    \/ WithTLSCredentials
    \/ NewProvider
    \/ Shutdown

(***************************************************************************)
(* Span                                                                    *)
(*                                                                         *)
(* The trace.Span behind a Span records the calls made on it, in order:    *)
(* SetStatus replaces the status, RecordError adds an error, End ends it.  *)
(***************************************************************************)
NilErr == "nil"
Errors == {"e1", "e2"}
Codes == {"Unset", "Error", "Ok"}

\* err.Error()
ErrorMessage(err) == IF err = "e1" THEN "boom" ELSE "timeout"

\* tracer.Start
NewSpan ==
    [status |-> [code |-> "Unset", description |-> ""],
     errors |-> <<>>, attributes |-> 0, events |-> 0, ends |-> 0, log |-> <<>>]

WithAttributes(s) ==
    [s EXCEPT !.attributes = @ + 1, !.log = Append(@, "SetAttributes")]

WithStatus(s, code, description) ==
    [s EXCEPT !.status = [code |-> code, description |-> description],
              !.log = Append(@, "SetStatus")]

AddEvent(s) ==
    [s EXCEPT !.events = @ + 1, !.log = Append(@, "AddEvent")]

RecordError(s, err) ==
    [s EXCEPT !.errors = Append(@, err), !.log = Append(@, "RecordError")]

WithError(s, err) ==
    IF err # NilErr
    THEN WithStatus(RecordError(s, err), "Error", ErrorMessage(err))
    ELSE s

End(s) == [s EXCEPT !.ends = @ + 1, !.log = Append(@, "End")]

\* An EndWithError that ends the span first.
EndWithErrorEndsFirst(s, err) ==
    IF err # NilErr THEN WithError(End(s), err)
    ELSE WithStatus(End(s), "Ok", "success")

EndWithError(s, err) ==
    End(IF err # NilErr THEN WithError(s, err)
        ELSE WithStatus(s, "Ok", "success"))

SpanIds == 1..Len(spans)

StartSpan ==
    /\ Len(spans) < MaxSpans
    /\ spans' = Append(spans, NewSpan)
    /\ UNCHANGED <<lastOp, nOps>>
    /\ UNCHANGED <<regVars, confVars, provVars, runVars, cmVars>>

\* One call on a Span: op names the method, err its error argument.
Call(id, op, err, after) ==
    /\ nOps < MaxSpanOps
    /\ nOps' = nOps + 1
    /\ lastOp' = [op |-> op, span |-> id, err |-> err, pre |-> spans[id]]
    /\ spans' = [spans EXCEPT ![id] = after]
    /\ UNCHANGED <<regVars, confVars, provVars, runVars, cmVars>>

SpanWithAttributes ==
    \E id \in SpanIds :
        Call(id, "WithAttributes", NilErr, WithAttributes(spans[id]))

SpanWithStatus ==
    \E id \in SpanIds, code \in Codes :
        Call(id, "WithStatus", NilErr, WithStatus(spans[id], code, "described"))

SpanAddEvent ==
    \E id \in SpanIds :
        Call(id, "AddEvent", NilErr, AddEvent(spans[id]))

SpanWithError ==
    \E id \in SpanIds, err \in Errors \cup {NilErr} :
        Call(id, "WithError", err, WithError(spans[id], err))

SpanEndWithError ==
    \E id \in SpanIds, err \in Errors \cup {NilErr} :
        Call(id, "EndWithError", err, EndWithError(spans[id], err))

SpanEnd ==
    \E id \in SpanIds :
        Call(id, "End", NilErr, End(spans[id]))

NoOp == [op |-> "none", span |-> 0, err |-> NilErr, pre |-> NewSpan]

InitSpan ==
    /\ spans = <<>>
    /\ lastOp = NoOp
    /\ nOps = 0

NextSpan ==
    \/ StartSpan
    \/ SpanWithAttributes
    \/ SpanWithStatus
    \/ SpanAddEvent
    \/ SpanWithError
    \/ SpanEndWithError
    \/ SpanEnd

(***************************************************************************)
(* The scoped paths: Tracer.WithSpan, HTTPMiddleware.Handler and           *)
(* dbTracer.Trace.  Each run starts one span; the span of run n has id n.  *)
(***************************************************************************)
Panic == "panic"
Contexts == {"ctx1", "ctx2"}
SpanNames == {"op"}

\* How the operation handed to a scoped path exits: it returns nil or an
\* error, or it panics.
Outcomes == Errors \cup {NilErr, Panic}

\* What the operation does with the span it is given before it exits.
SpanUses == {"none", "WithAttributes", "AddEvent", "WithStatus"}

UseSpan(s, use) ==
    IF use = "WithAttributes" THEN WithAttributes(s)
    ELSE IF use = "AddEvent" THEN AddEvent(s)
    ELSE IF use = "WithStatus" THEN WithStatus(s, "Error", "described")
    ELSE s

\* ctx, span := tracer.Start(ctx, name, opts...): the context returned
\* carries the new span and descends from the one passed in.
StartedCtx(ctx, id) == [parent |-> ctx, span |-> id]

NoRun == [path |-> "none"]

\* A WithSpan that returns nil whatever the operation returned.
WithSpanBodySwallowsError(ctx, id, name, fn) ==
    LET afterFn == UseSpan(NewSpan, fn.use)
        body == IF fn.outcome = Panic THEN afterFn
                ELSE IF fn.outcome # NilErr THEN WithError(afterFn, fn.outcome)
                ELSE WithStatus(afterFn, "Ok", "success")
    IN [path |-> "WithSpan", id |-> id, name |-> name, ctx |-> ctx,
        fnCalls |-> <<[ctx |-> StartedCtx(ctx, id), span |-> id]>>,
        outcome |-> fn.outcome, afterFn |-> afterFn,
        span |-> End(body),
        ret |-> IF fn.outcome = Panic THEN Panic ELSE NilErr]

\* A WithSpan that ends the span as soon as fn is back and records the
\* error or the success afterwards.
WithSpanBodyEndsFirst(ctx, id, name, fn) ==
    LET afterFn == UseSpan(NewSpan, fn.use)
        ended == End(afterFn)
        body == IF fn.outcome = Panic THEN ended
                ELSE IF fn.outcome # NilErr THEN WithError(ended, fn.outcome)
                ELSE WithStatus(ended, "Ok", "success")
    IN [path |-> "WithSpan", id |-> id, name |-> name, ctx |-> ctx,
        fnCalls |-> <<[ctx |-> StartedCtx(ctx, id), span |-> id]>>,
        outcome |-> fn.outcome, afterFn |-> afterFn,
        span |-> body,
        ret |-> fn.outcome]

\* The body of Tracer.WithSpan.  fn is the operation: what it does with the
\* span and how it exits.  The deferred span.sp.End() runs on every exit,
\* a panic of fn included, and the panic then reaches the caller.
WithSpanBody(ctx, id, name, fn) ==
    LET afterFn == UseSpan(NewSpan, fn.use)
        body == IF fn.outcome = Panic THEN afterFn
                ELSE IF fn.outcome # NilErr THEN WithError(afterFn, fn.outcome)
                ELSE WithStatus(afterFn, "Ok", "success")
    IN [path |-> "WithSpan", id |-> id, name |-> name, ctx |-> ctx,
        fnCalls |-> <<[ctx |-> StartedCtx(ctx, id), span |-> id]>>,
        outcome |-> fn.outcome, afterFn |-> afterFn,
        span |-> End(body),
        ret |-> fn.outcome]

WithSpan ==
    /\ nRuns < MaxRuns
    /\ nRuns' = nRuns + 1
    /\ \E ctx \in Contexts, name \in SpanNames, use \in SpanUses, outcome \in Outcomes :
        lastRun' = WithSpanBody(ctx, nRuns + 1, name, [use |-> use, outcome |-> outcome])
    /\ UNCHANGED <<reqs, metrics, wrappers>>
    /\ UNCHANGED <<regVars, confVars, provVars, spanVars, cmVars>>

NextTracer == WithSpan

(***************************************************************************)
(* HTTPMiddleware.Handler                                                  *)
(*                                                                         *)
(* The active request gauge keeps a net value per attribute set.  The      *)
(* calls a request makes on the request counter and on the duration        *)
(* histogram are recorded with the request.                                *)
(***************************************************************************)
Requests == 1..NumRequests
Method == "GET"
Routes == {"/a", "/b"}
StatusOK == 200
StatusBadRequest == 400
Statuses == {StatusOK, StatusBadRequest}

Digits == <<"0", "1", "2", "3", "4", "5", "6", "7", "8", "9">>

RECURSIVE Itoa(_)
\* strconv.Itoa for a non-negative int
Itoa(n) ==
    IF n < 10 THEN Digits[n + 1]
    ELSE Itoa(n \div 10) \o Digits[(n % 10) + 1]

NewMetrics == [HTTPActiveRequests |-> [route \in Routes |-> 0]]

\* The http.ResponseWriter the middleware wraps: the status line goes out on
\* the first WriteHeader, and a later WriteHeader changes nothing.
NotSent == 0

ResponseWriterWriteHeader(sent, statusCode) ==
    IF sent = NotSent THEN statusCode ELSE sent

\* The status the client has received once the handler has returned: a
\* handler that never called WriteHeader has sent 200.
SentStatus(sent) == IF sent = NotSent THEN StatusOK ELSE sent

\* A request in a goroutine: where it is in Handler, the responseWriter's
\* statusCode, its span, and the metric calls it has made so far.
IdleRequest ==
    [pc |-> "idle", route |-> "", wrote |-> FALSE, statusCode |-> 0,
     sent |-> NotSent,
     outcome |-> NilErr, span |-> NewSpan, gauge |-> 0, counted |-> <<>>,
     observed |-> 0]

\* Lines 36-56: the span is started and its End deferred, the active
\* request gauge is incremented and its decrement deferred, and the
\* response is wrapped with statusCode 200; next.ServeHTTP is entered.
HandlerBegin(g) ==
    /\ reqs[g].pc = "idle"
    /\ nRuns < MaxRuns
    /\ nRuns' = nRuns + 1
    /\ \E route \in Routes :
        /\ reqs' = [reqs EXCEPT ![g] =
                     [pc |-> "serving", route |-> route,
                      wrote |-> FALSE, statusCode |-> StatusOK,
                      sent |-> NotSent, outcome |-> NilErr,
                      span |-> NewSpan, gauge |-> 1, counted |-> <<>>,
                      observed |-> 0]]
        /\ metrics' = [metrics EXCEPT !.HTTPActiveRequests[route] = @ + 1]
    /\ UNCHANGED <<lastRun, wrappers>>
    /\ UNCHANGED <<regVars, confVars, provVars, spanVars, cmVars>>

\* responseWriter.WriteHeader, called by the wrapped handler
WriteHeader(g) ==
    /\ reqs[g].pc = "serving"
    /\ \E statusCode \in Statuses :
        reqs' = [reqs EXCEPT
                    ![g].statusCode = statusCode,
                    ![g].sent = ResponseWriterWriteHeader(@, statusCode),
                    ![g].wrote = TRUE]
    /\ UNCHANGED <<metrics, lastRun, nRuns, wrappers>>
    /\ UNCHANGED <<regVars, confVars, provVars, spanVars, cmVars>>

\* Lines 62-69 without the status check of lines 63-65.
AfterServeHTTPNeverMarks(r) ==
    [r EXCEPT !.pc = "deferred",
              !.span = WithAttributes(r.span),
              !.counted = Append(@, Itoa(r.statusCode)),
              !.observed = @ + 1]

\* Lines 62-69 with a status check that lets 400 itself pass.
AfterServeHTTPAboveBadRequest(r) ==
    LET coded == WithAttributes(r.span)
        marked == IF r.statusCode > StatusBadRequest
                  THEN WithStatus(coded, "Error", "HTTP Request Failed")
                  ELSE coded
    IN [r EXCEPT !.pc = "deferred",
                 !.span = marked,
                 !.counted = Append(@, Itoa(r.statusCode)),
                 !.observed = @ + 1]

\* Lines 62-69, after next.ServeHTTP returned.
AfterServeHTTP(r) ==
    LET coded == WithAttributes(r.span)
        marked == IF r.statusCode >= StatusBadRequest
                  THEN WithStatus(coded, "Error", "HTTP Request Failed")
                  ELSE coded
    IN [r EXCEPT !.pc = "deferred",
                 !.span = marked,
                 !.counted = Append(@, Itoa(r.statusCode)),
                 !.observed = @ + 1]

\* A release that a panic of the wrapped handler skips.
ActiveRequestsReleaseOnReturn(outcome) == IF outcome = Panic THEN 0 ELSE -1

\* defer m.metrics.HTTPActiveRequests.Add(ctx, -1, ...): what is added to
\* the gauge when Handler exits.
ActiveRequestsRelease(outcome) == -1

\* A Handler that ends its span only when the wrapped handler returned.
HandlerSpanEndOnReturn(span, outcome) == IF outcome = Panic THEN span ELSE End(span)

\* defer span.End()
HandlerSpanEnd(span, outcome) == End(span)

\* The deferred calls of a request whose body is over, in reverse order of
\* their defer statements; the goroutine is then done with the request.
HandlerDeferred(g, r) ==
    /\ LET release == ActiveRequestsRelease(r.outcome)
       IN /\ metrics' = [metrics EXCEPT !.HTTPActiveRequests[r.route] = @ + release]
          /\ lastRun' = [path |-> "Handler", name |-> Method \o " " \o r.route,
                         route |-> r.route, wrote |-> r.wrote,
                         statusCode |-> r.statusCode,
                         sent |-> SentStatus(r.sent), outcome |-> r.outcome,
                         span |-> HandlerSpanEnd(r.span, r.outcome),
                         gauge |-> r.gauge + release,
                         counted |-> r.counted, observed |-> r.observed]
    /\ reqs' = [reqs EXCEPT ![g] = IdleRequest]
    /\ UNCHANGED <<nRuns, wrappers>>
    /\ UNCHANGED <<regVars, confVars, provVars, spanVars, cmVars>>

\* next.ServeHTTP returns: lines 60-69 run, then the deferred calls.
ServeHTTPReturns(g) ==
    /\ reqs[g].pc = "serving"
    /\ HandlerDeferred(g, AfterServeHTTP(reqs[g]))

\* next.ServeHTTP panics: lines 60-69 are skipped and the deferred calls
\* run while the panic unwinds.
ServeHTTPPanics(g) ==
    /\ reqs[g].pc = "serving"
    /\ HandlerDeferred(g, [reqs[g] EXCEPT !.pc = "deferred", !.outcome = Panic])

NextHTTP ==
    \E g \in Requests :
        \/ HandlerBegin(g)
        \/ WriteHeader(g)
        \/ ServeHTTPReturns(g)
        \/ ServeHTTPPanics(g)

(***************************************************************************)
(* dbTracer.Trace and the wrappers TracedDB, TracedStmt and TracedTx       *)
(***************************************************************************)
None == "none"
Background == "context.Background()"
DBContexts == {"ctx1"}
Queries == {"SELECT 1"}
Args == {"args"}

QueryRowMethods == {"QueryRowContext"}

\* The *dbTracer NewDBTracer built and NewTracedDB was given: a pointer,
\* with the database name and type it labels its spans and metrics with.
DBTracer == [ptr |-> "dt", dbName |-> "orders", dbType |-> "postgres"]

\* A TracedDB has no query of its own; a TracedStmt keeps the query it was
\* prepared with.
TracedDB == [query |-> None, tracer |-> DBTracer]

\* attrs of Trace: the labels of the query counter and of the duration
\* histogram.
TraceAttrs(dt) == [db_name |-> dt.dbName, db_type |-> dt.dbType]

\* A TracedStmt or TracedTx built around a dbTracer of its own.
WrapperTracerOwn(tracer) == [ptr |-> "dt2", dbName |-> "", dbType |-> ""]

\* tracer: tdb.tracer, tracer: ttx.tracer: the dbTracer a new TracedStmt or
\* TracedTx is given.
WrapperTracer(tracer) == tracer

\* The parameters each wrapper method takes.
TakesCtx(method) == method \notin {"Commit", "Rollback"}

TakesQuery(recv, method) ==
    /\ recv # "TracedStmt"
    /\ method \in {"QueryContext", "QueryRowContext", "ExecContext", "PrepareContext"}

TakesArgs(method) ==
    method \in {"QueryContext", "QueryRowContext", "ExecContext", "BeginTx"}

\* What the caller passes to a wrapper method.
Input(recv, method, ctx, query, args) ==
    [ctx |-> IF TakesCtx(method) THEN ctx ELSE None,
     query |-> IF TakesQuery(recv, method) THEN query ELSE None,
     args |-> IF TakesArgs(method) THEN args ELSE None]

\* The handle a wrapper holds: tdb.db, ts.stmt, ttx.tx.
Handle(recv) ==
    IF recv = "TracedDB" THEN "db" ELSE IF recv = "TracedStmt" THEN "stmt" ELSE "tx"

\* What a database/sql method returns besides its error.
ValueOf(method) ==
    IF method = "QueryContext" THEN "rows"
    ELSE IF method = "QueryRowContext" THEN "row"
    ELSE IF method = "ExecContext" THEN "result"
    ELSE IF method = "PrepareContext" THEN "stmt"
    ELSE IF method = "BeginTx" THEN "tx"
    ELSE None

Value(is, err, wrapper, query) ==
    [is |-> is, err |-> err, wrapper |-> wrapper, query |-> query]

NilValue == Value(Nil, None, None, None)

\* One call on the database/sql handle, with the arguments passed to it.
\* A *sql.Row is always returned and carries its error; the other methods
\* return a nil value with an error.
Underlying(recv, method, in, outcome) ==
    [call |-> [handle |-> Handle(recv), method |-> method,
               ctx |-> in.ctx, query |-> in.query, args |-> in.args],
     value |-> IF outcome = Panic THEN NilValue
               ELSE IF method \in QueryRowMethods
                    THEN Value("row", outcome, None, None)
               ELSE IF outcome = NilErr /\ ValueOf(method) # None
                    THEN Value(ValueOf(method), None, None, None)
               ELSE NilValue,
     err |-> IF outcome = Panic THEN Panic
             ELSE IF method \in QueryRowMethods THEN None
             ELSE outcome]

\* The same call made on the unwrapped handle.
DirectCall(recv, method, in, outcome) ==
    LET u == Underlying(recv, method, in, outcome)
    IN [underlying |-> <<u.call>>, value |-> u.value, err |-> u.err]

\* A Trace that returns before the metrics when fn failed.
TraceBodyCountsSuccessOnly(ctx, query, fnErr) ==
    LET started == NewSpan
        failed == fnErr \notin {NilErr, Panic}
        recorded == fnErr = NilErr
        marked == IF failed
                  THEN WithStatus(WithError(started, fnErr), "Error", ErrorMessage(fnErr))
                  ELSE started
    IN [name |-> "db.query", ctx |-> StartedCtx(ctx, 0), query |-> query,
        queries |-> IF recorded THEN 1 ELSE 0,
        durations |-> IF recorded THEN 1 ELSE 0,
        span |-> End(marked),
        ret |-> fnErr]

\* The body of dbTracer.Trace.  fnErr is what fn returns, or Panic.  The
\* deferred span.End() runs on every exit; a panic of fn skips lines 47-61.
TraceBody(ctx, query, fnErr) ==
    LET started == NewSpan
        failed == fnErr \notin {NilErr, Panic}
        recorded == fnErr # Panic
        marked == IF failed
                  THEN WithStatus(WithError(started, fnErr), "Error", ErrorMessage(fnErr))
                  ELSE started
    IN [name |-> "db.query", ctx |-> StartedCtx(ctx, 0), query |-> query,
        queries |-> IF recorded THEN 1 ELSE 0,
        durations |-> IF recorded THEN 1 ELSE 0,
        span |-> End(marked),
        ret |-> fnErr]

\* The query string a wrapper method passes to Trace.
TraceQuery(recv, method, query, stmtQuery) ==
    IF method = "BeginTx" THEN "BEGIN"
    ELSE IF method = "PingContext" THEN "PING"
    ELSE IF method = "Commit" THEN "COMMIT"
    ELSE IF method = "Rollback" THEN "ROLLBACK"
    ELSE IF recv = "TracedStmt" THEN stmtQuery
    ELSE query

\* The context a wrapper method passes to Trace.
TraceCtx(method, ctx) ==
    IF method \in {"Commit", "Rollback"} THEN Background ELSE ctx

\* The arguments the closure a wrapper passes to Trace hands to the
\* database: the wrapper method's own ctx, query and args.
Forwarded(in, traceCtx) == in

\* What fn, the closure, returns to Trace.
FnErr(method, u) ==
    IF u.err = Panic THEN Panic
    ELSE IF method \in QueryRowMethods THEN NilErr
    ELSE u.err

\* A wrapper for which a failed call returns a non-nil error only from Trace.
WrapperReturnDropsErr(recv, method, in, u, ret) ==
    IF method \in {"PingContext", "Commit", "Rollback"}
    THEN [value |-> NilValue, err |-> ret]
    ELSE [value |-> u.value, err |-> IF method \in QueryRowMethods THEN None ELSE NilErr]

\* What a wrapper method returns when Trace returned ret: the variables its
\* closure assigned, or Trace's own result.
WrapperReturn(recv, method, in, u, ret) ==
    IF method \in {"PingContext", "Commit", "Rollback"}
    THEN [value |-> NilValue, err |-> ret]
    ELSE IF method \in QueryRowMethods
    THEN [value |-> u.value, err |-> None]
    ELSE IF method = "PrepareContext"
    THEN IF u.err # NilErr
         THEN [value |-> NilValue, err |-> u.err]
         ELSE [value |-> Value(u.value.is, None, "TracedStmt", in.query), err |-> NilErr]
    ELSE IF method = "BeginTx"
    THEN IF u.err # NilErr
         THEN [value |-> NilValue, err |-> u.err]
         ELSE [value |-> Value(u.value.is, None, "TracedTx", None), err |-> NilErr]
    ELSE [value |-> u.value, err |-> u.err]

\* A wrapper method that runs the database operation outside Trace as well.
UnderlyingCallsTwice(u) == <<u.call, u.call>>

\* The calls a wrapper method makes on the database: the one in its closure.
UnderlyingCalls(u) == <<u.call>>

\* One call of a wrapper method on the wrapper self: Trace runs on the
\* dbTracer self holds, and a wrapper that is returned gets its dbTracer.
TracedCall(recv, method, in, self, outcome) ==
    LET traceCtx == TraceCtx(method, in.ctx)
        u == Underlying(recv, method, Forwarded(in, traceCtx), outcome)
        t == TraceBody(traceCtx, TraceQuery(recv, method, in.query, self.query),
                       FnErr(method, u))
        back == IF t.ret = Panic THEN [value |-> NilValue, err |-> Panic]
                    ELSE WrapperReturn(recv, method, in, u, t.ret)
    IN [path |-> "Trace", recv |-> recv, method |-> method, in |-> in,
        outcome |-> outcome, fnErr |-> FnErr(method, u),
        underlying |-> UnderlyingCalls(u),
        traces |-> <<[ctx |-> traceCtx, query |-> t.query]>>,
        tracer |-> self.tracer, attrs |-> TraceAttrs(self.tracer),
        name |-> t.name, span |-> t.span,
        queries |-> t.queries, durations |-> t.durations, ret |-> t.ret,
        returned |-> back,
        wrapperTracer |-> IF back.value.wrapper # None
                          THEN WrapperTracer(self.tracer) ELSE None]

\* The wrappers that exist: the TracedStmts and the TracedTxs handed out,
\* each with the fields it was built with.
NoWrappers == [stmts |-> {}, txs |-> {}]

WrappersAfter(run) ==
    IF run.returned.err # NilErr THEN wrappers
    ELSE IF run.method = "PrepareContext"
         THEN [wrappers EXCEPT !.stmts =
                  @ \cup {[query |-> run.in.query, tracer |-> run.wrapperTracer]}]
    ELSE IF run.method = "BeginTx"
         THEN [wrappers EXCEPT !.txs =
                  @ \cup {[query |-> None, tracer |-> run.wrapperTracer]}]
    ELSE wrappers

\* The wrappers a method of recv can be called on.
Receivers(recv) ==
    IF recv = "TracedStmt" THEN wrappers.stmts
    ELSE IF recv = "TracedTx" THEN wrappers.txs
    ELSE {TracedDB}

DBCall(recv, method) ==
    /\ nRuns < MaxRuns
    /\ nRuns' = nRuns + 1
    /\ \E ctx \in DBContexts, query \in Queries, args \in Args, outcome \in Outcomes,
          self \in Receivers(recv) :
        LET run == TracedCall(recv, method, Input(recv, method, ctx, query, args),
                              self, outcome)
        IN /\ lastRun' = run
           /\ wrappers' = WrappersAfter(run)
    /\ UNCHANGED <<reqs, metrics>>
    /\ UNCHANGED <<regVars, confVars, provVars, spanVars, cmVars>>

\* dbTracer.Trace called with a function of the caller's own.
Trace ==
    /\ nRuns < MaxRuns
    /\ nRuns' = nRuns + 1
    /\ \E ctx \in DBContexts, query \in Queries, outcome \in Outcomes :
        LET t == TraceBody(ctx, query, outcome)
        IN lastRun' = [path |-> "Trace", recv |-> "dbTracer", method |-> "Trace",
                       in |-> [ctx |-> ctx, query |-> query, args |-> None],
                       outcome |-> outcome, fnErr |-> outcome,
                       underlying |-> <<>>,
                       traces |-> <<[ctx |-> ctx, query |-> t.query]>>,
                       tracer |-> DBTracer, attrs |-> TraceAttrs(DBTracer),
                       name |-> t.name, span |-> t.span,
                       queries |-> t.queries, durations |-> t.durations,
                       ret |-> t.ret,
                       returned |-> [value |-> NilValue, err |-> t.ret],
                       wrapperTracer |-> None]
    /\ UNCHANGED <<reqs, metrics, wrappers>>
    /\ UNCHANGED <<regVars, confVars, provVars, spanVars, cmVars>>

QueryContext == DBCall("TracedDB", "QueryContext")

QueryRowContext == DBCall("TracedDB", "QueryRowContext")

ExecContext == DBCall("TracedDB", "ExecContext")

PrepareContext == DBCall("TracedDB", "PrepareContext")

BeginTx == DBCall("TracedDB", "BeginTx")

PingContext == DBCall("TracedDB", "PingContext")

StmtExecContext == DBCall("TracedStmt", "ExecContext")

StmtQueryContext == DBCall("TracedStmt", "QueryContext")

StmtQueryRowContext == DBCall("TracedStmt", "QueryRowContext")

TxExecContext == DBCall("TracedTx", "ExecContext")

TxQueryContext == DBCall("TracedTx", "QueryContext")

TxQueryRowContext == DBCall("TracedTx", "QueryRowContext")

TxPrepareContext == DBCall("TracedTx", "PrepareContext")

Commit == DBCall("TracedTx", "Commit")

Rollback == DBCall("TracedTx", "Rollback")

NextDB ==
    \/ Trace
    \/ QueryContext
    \/ QueryRowContext
    \/ ExecContext
    \/ PrepareContext
    \/ BeginTx
    \/ PingContext
    \/ StmtExecContext
    \/ StmtQueryContext
    \/ StmtQueryRowContext
    \/ TxExecContext
    \/ TxQueryContext
    \/ TxQueryRowContext
    \/ TxPrepareContext
    \/ Commit
    \/ Rollback

NextScoped ==
    \/ NextTracer
    \/ NextHTTP
    \/ NextDB

InitRuns ==
    /\ reqs = [g \in Requests |-> IdleRequest]
    /\ metrics = NewMetrics
    /\ lastRun = NoRun
    /\ nRuns = 0
    /\ wrappers = NoWrappers

(***************************************************************************)
(* NewCommonMetrics                                                        *)
(*                                                                         *)
(* It is called on a MetricRegistry of its own, from one goroutine; a      *)
(* second call on the same registry finds what the first one registered.   *)
(***************************************************************************)
NumCommon == 8

CommonInstruments ==
    <<[field |-> "HTTPRequestsTotal", kind |-> "counters",
       name |-> "http_requests_total"],
      [field |-> "HTTPRequestDuration", kind |-> "histograms",
       name |-> "http_request_duration_seconds"],
      [field |-> "HTTPActiveRequests", kind |-> "upDownCounters",
       name |-> "http_active_requests"],
      [field |-> "DBConnectionsActive", kind |-> "upDownCounters",
       name |-> "db_connections_active"],
      [field |-> "DBQueriesTotal", kind |-> "counters",
       name |-> "db_queries_total"],
      [field |-> "DBQueryDuration", kind |-> "histograms",
       name |-> "db_query_duration_seconds"],
      [field |-> "ErrorsTotal", kind |-> "counters",
       name |-> "errors_total"],
      [field |-> "StartTime", kind |-> "gauges",
       name |-> "start_time_seconds"]>>

CommonFields == {CommonInstruments[i].field : i \in 1..NumCommon}

\* The name NewCommonMetrics passes to the registry method: the gauge's is
\* registry.generateMetricName("start_time_seconds"), the others are literals.
PassedName(prefix, i) ==
    IF CommonInstruments[i].kind = "gauges"
    THEN generateMetricName(prefix, CommonInstruments[i].name)
    ELSE CommonInstruments[i].name

\* One get-or-create call of the registry, from lock to unlock, with no other
\* goroutine using the registry: created are the instruments of the meter.
GetOrCreate(r, created, kind, name, ok) ==
    LET metricName == generateMetricName(r.prefix, name)
        handle == IF ok THEN Len(created) + 1 ELSE NilHandle
    IN IF CacheHit(r[CacheOf(kind)], metricName)
       THEN [registry |-> r, created |-> created,
             handle |-> r[CacheOf(kind)][metricName], err |-> NoError]
       ELSE [registry |-> [r EXCEPT ![CacheOf(kind)] =
                                       CacheAfterCreate(@, metricName, handle, ok)],
             created |-> IF ok
                         THEN Append(created, [kind |-> kind, metricName |-> metricName])
                         ELSE created,
             handle |-> handle,
             err |-> IF ok THEN NoError ELSE "failed to create " \o metricName]

\* A NewCommonMetrics that goes on after an error.
ReturnsOnNever(err) == FALSE

\* if err != nil { return nil, err }
ReturnsOn(err) == err # NoError

RECURSIVE RegisterFrom(_, _, _)
\* The registrations of NewCommonMetrics from the i-th on; the meter fails
\* to create the instrument numbered failAt.
RegisterFrom(w, i, failAt) ==
    IF i > NumCommon THEN w
    ELSE LET inst == CommonInstruments[i]
             r == GetOrCreate(w.registry, w.created, inst.kind,
                              PassedName(w.registry.prefix, i), i # failAt)
             after == [registry |-> r.registry,
                       created |-> r.created,
                       bundle |-> [w.bundle EXCEPT ![inst.field] = r.handle],
                       calls |-> Append(w.calls, inst.field),
                       err |-> r.err]
         IN IF ReturnsOn(r.err) THEN after ELSE RegisterFrom(after, i + 1, failAt)

NoBundle == [field \in CommonFields |-> NilHandle]

NewCommonMetrics ==
    /\ cm.n < MaxBootstraps
    /\ \E failAt \in 0..NumCommon :
        LET w == RegisterFrom([registry |-> cm.registry, created |-> cm.created,
                               bundle |-> NoBundle, calls |-> <<>>, err |-> NoError],
                              1, failAt)
        IN cm' = [registry |-> w.registry,
                  created |-> w.created,
                  n |-> cm.n + 1,
                  last |-> [calls |-> w.calls,
                            nil |-> w.err # NoError,
                            bundle |-> IF w.err # NoError THEN NoBundle ELSE w.bundle,
                            err |-> w.err,
                            before |-> cm.created]]
    /\ UNCHANGED <<regVars, confVars, provVars, spanVars, runVars>>

InitCommon ==
    cm = [registry |-> NewMetricRegistry(registry.prefix),
          created |-> <<>>,
          n |-> 0,
          last |-> [calls |-> <<>>, nil |-> TRUE, bundle |-> NoBundle,
                    err |-> NoError, before |-> <<>>]]

NextCommon == NewCommonMetrics

Init ==
    /\ InitRegistry /\ InitConfig /\ InitProvider /\ InitSpan
    /\ InitRuns /\ InitCommon

Next ==
    \/ NextRegistry
    \/ NextConfig
    \/ NextProvider
    \/ NextSpan
    \/ NextScoped
    \/ NextCommon

Spec == Init /\ [][Next]_vars

SpecRegistry == Init /\ [][NextRegistry]_vars

\* A goroutine inside a registry method takes its next step when it can:
\* the lookup is local, the meter's create call returns, and m.mu.Lock()
\* returns once mu stays free.
Proceed(g) == Lock(g) \/ Lookup(g) \/ Create(g)

\* The registry with its scheduling.  Weak fairness is all that is assumed
\* of m.mu.Lock(): a waiter is only promised mu if mu stays free.
SpecRegistryFair ==
    /\ Init
    /\ [][NextRegistry]_vars
    /\ \A g \in Goroutines : WF_vars(Proceed(g))

SpecConfig == Init /\ [][NextConfig]_vars

SpecProvider == Init /\ [][NextProvider]_vars

SpecSpan == Init /\ [][NextSpan]_vars

SpecTracer == Init /\ [][NextTracer]_vars

SpecHTTP == Init /\ [][NextHTTP]_vars

SpecDB == Init /\ [][NextDB]_vars

SpecScoped == Init /\ [][NextScoped]_vars

SpecCommon == Init /\ [][NextCommon]_vars

(***************************************************************************)
(* Properties of the metric registry                                       *)
(***************************************************************************)
Instruments(key) ==
    {h \in 1..Len(meter.instruments) :
        /\ meter.instruments[h].kind = key[1]
        /\ meter.instruments[h].metricName = key[2]}

Caches(r) == [kind \in Kinds |-> r[kind]]

\* C1 (as stated): for every kind and qualified name that some call has
\* returned for, the meter's create was invoked exactly once and all calls
\* returned one and the same handle.
C1_CreateInvokedExactlyOnce ==
    \A key \in Keys :
        returned[key] # {} =>
            /\ meter.calls[key].ok + meter.calls[key].failed = 1
            /\ Cardinality(returned[key]) = 1

\* C1 (amended): under any interleaving, for every kind and qualified name
\* the meter's create succeeds at most once, and exactly once when no create
\* for it failed; one instrument exists for it exactly when it is cached; and
\* every call that returned without error returned the cached handle.
C1_CreatedAtMostOnce ==
    \A key \in Keys :
        LET cache == registry[key[1]]
            cached == key[2] \in DOMAIN cache
            handles == returned[key] \ {NilHandle}
        IN /\ meter.calls[key].ok <= 1
           /\ Cardinality(Instruments(key)) = meter.calls[key].ok
           /\ cached <=> meter.calls[key].ok = 1
           /\ cached => Instruments(key) = {cache[key[2]]}
           /\ handles \subseteq Instruments(key)
           /\ NilHandle \in returned[key] => meter.calls[key].failed >= 1
           /\ (returned[key] # {} /\ meter.calls[key].failed = 0) =>
                 meter.calls[key].ok + meter.calls[key].failed = 1

\* Two calls for one kind and name overlapped, one created the instrument and
\* the other returned the same handle from the cache.
C1_Witness ==
    /\ last.ok /\ last.hit /\ last.overlapped
    /\ \A g \in Goroutines : gs[g].pc = "idle"
    /\ meter.calls[<<last.kind, last.metricName>>].ok = 1
    /\ returned[<<last.kind, last.metricName>>] = {last.handle}

\* C2: a call that finds its qualified name cached for its kind returns the
\* cached handle, does not call the meter and changes no instrument and no
\* cache: the instrument keeps the description and options it was created with.
C2_HitReturnsCached ==
    [][\A g \in Goroutines :
        (/\ gs[g].pc = "lookup"
         /\ gs'[g] # gs[g]
         /\ gs[g].metricName \in DOMAIN registry[gs[g].kind])
        => /\ gs'[g].pc = "idle"
           /\ meter' = meter
           /\ Caches(registry') = Caches(registry)
           /\ last'.ok /\ last'.hit
           /\ last'.handle = registry[gs[g].kind][gs[g].metricName]
           /\ last'.handle \in Instruments(<<gs[g].kind, gs[g].metricName>>)]_vars

\* A hit returned an instrument whose description is not the one the call
\* passed.
C2_Witness ==
    /\ last.ok /\ last.hit
    /\ meter.instruments[last.handle].description # last.description
    /\ meter.calls[<<last.kind, last.metricName>>].ok = 1

\* C3: when the meter's create fails, the call returns a nil handle with an
\* error, no cache changes, the lock is released, and no cache ever holds a
\* nil handle.
C3_FailureLeavesCaches ==
    [][\A g \in Goroutines :
        (/\ gs[g].pc = "create"
         /\ gs'[g] # gs[g]
         /\ meter'.calls[<<gs[g].kind, gs[g].metricName>>].failed
                # meter.calls[<<gs[g].kind, gs[g].metricName>>].failed)
        => /\ Caches(registry') = Caches(registry)
           /\ gs[g].metricName \notin DOMAIN registry'[gs[g].kind]
           /\ meter'.instruments = meter.instruments
           /\ ~last'.ok
           /\ last'.handle = NilHandle
           /\ registry'.mu = Unlocked
           /\ gs'[g].pc = "idle"]_vars

\* After a failed create for a name, a later call for the same name created
\* the instrument.
C3_Witness ==
    /\ last.ok /\ ~last.hit
    /\ meter.calls[<<last.kind, last.metricName>>].failed >= 1
    /\ meter.calls[<<last.kind, last.metricName>>].ok = 1
    /\ last.metricName \in DOMAIN registry[last.kind]

(***************************************************************************)
(* Properties of the provider                                              *)
(***************************************************************************)
ShutdownMessage(sig) == "failed to shutdown " \o sig \o " provider"

\* C4: a Shutdown that returns has called trace, metric and log in that
\* order whichever of them failed; its error lists exactly the failing
\* providers, as many as failed, and is nil iff none failed.
C4_ShutdownAggregates ==
    lastShutdown.returned =>
        /\ lastShutdown.calls = <<"trace", "metric", "log">>
        /\ \A sig \in SignalSet : sdk[sig].shutdowns = nShutdowns
        /\ Len(lastShutdown.err.errs) = Cardinality(lastShutdown.failing)
        /\ {lastShutdown.err.errs[i] : i \in 1..Len(lastShutdown.err.errs)}
              = {ShutdownMessage(sig) : sig \in lastShutdown.failing}
        /\ lastShutdown.err.nil <=> lastShutdown.failing = {}

\* Shutdown reported two or more failing providers, the first being trace.
C4_Witness ==
    /\ lastShutdown.returned
    /\ "trace" \in lastShutdown.failing
    /\ Cardinality(lastShutdown.failing) >= 2
    /\ Len(lastShutdown.err.errs) >= 2
    /\ sdk["log"].shutdowns = nShutdowns

\* C5: the first Shutdown on a provider NewProvider returned, with no
\* sub-provider failing, returns nil.
C5_HealthyShutdownReturnsNil ==
    (/\ result.p # Nil
     /\ nShutdowns = 1
     /\ lastShutdown.failing = {})
    => /\ ~panicked
       /\ lastShutdown.returned
       /\ lastShutdown.err.nil

C5_Witness ==
    /\ result.p # Nil
    /\ nShutdowns = 1
    /\ lastShutdown.returned
    /\ lastShutdown.failing = {}
    /\ lastShutdown.err.nil

\* C6: a second (or later) Shutdown on a provider NewProvider returned does
\* not panic and returns; the sub-providers that reject it are all reported.
C6_RepeatedShutdown ==
    (result.p # Nil /\ nShutdowns >= 2)
    => /\ ~panicked
       /\ lastShutdown.returned
       /\ lastShutdown.calls = <<"trace", "metric", "log">>
       /\ lastShutdown.failing # {} =>
             /\ ~lastShutdown.err.nil
             /\ Len(lastShutdown.err.errs) = Cardinality(lastShutdown.failing)

C6_Witness ==
    /\ result.p # Nil
    /\ nShutdowns = 2
    /\ lastShutdown.returned
    /\ lastShutdown.failing = SignalSet
    /\ ~lastShutdown.err.nil

\* C7 (as stated): when NewProvider failed after resource creation, Shutdown
\* on what it returned does not panic and shuts down every sub-provider that
\* was constructed.
C7_ShutdownSafeAfterFailedInit ==
    (/\ phase = "returned"
     /\ result.failAt \notin {"none", "resource"}
     /\ nShutdowns >= 1)
    => /\ ~panicked
       /\ \A sig \in SignalSet : sdk[sig].built => sdk[sig].shutdowns >= 1

AllStages == <<"resource", "tracing", "metrics", "logging">>

\* The stage an error NewProvider returns names.
ErrorStage(err) ==
    IF err = "failed to create resource" THEN "resource"
    ELSE IF err = "failed to create trace exporter" THEN "tracing"
    ELSE IF err = "failed to create metric exporter" THEN "metrics"
    ELSE IF err \in {"failed to create log exporter", "failed to create zap logger"}
         THEN "logging"
    ELSE "none"

\* C8: NewProvider runs resource, tracing, metrics, logging in that order and
\* stops at the first stage that fails: it then returns a nil Provider and an
\* error naming that stage.  It returns a Provider only after all four
\* stages succeeded, with tracer, meter and logger set.
C8_StagesShortCircuit ==
    phase = "returned" =>
        /\ Len(stages) >= 1
        /\ stages = SubSeq(AllStages, 1, Len(stages))
        /\ result.failAt # "none" =>
              /\ result.p = Nil
              /\ result.err # NoError
              /\ ErrorStage(result.err) = stages[Len(stages)]
        /\ result.failAt = "none" => result.p # Nil
        /\ result.p # Nil =>
              /\ result.err = NoError
              /\ stages = AllStages
              /\ p.tracer # Nil /\ p.meter # Nil /\ p.logger # Nil
              /\ \A sig \in SignalSet : sdk[sig].built

\* NewProvider failed at the metrics stage and never ran the logging stage.
C8_Witness ==
    /\ phase = "returned"
    /\ result.failAt = "metric exporter"
    /\ result.p = Nil
    /\ stages = <<"resource", "tracing", "metrics">>
    /\ ~sdk["log"].built

(***************************************************************************)
(* Properties of the configuration                                         *)
(***************************************************************************)
InUnitInterval(x) == x.class = "num" /\ 0 <= x.v /\ x.v <= 10

\* C9 (as stated): the stored sampling ratio always lies in [0,1], and
\* WithSamplingRatio(r) stores 0 for r < 0, 1 for r > 1 and r otherwise.
C9_RatioClamped ==
    /\ InUnitInterval(conf.Tracing.SamplingRatio)
    /\ lastOpt.name = "WithSamplingRatio" =>
          conf.Tracing.SamplingRatio =
              IF FloatLess(lastOpt.arg, Num(0)) THEN Num(0)
              ELSE IF FloatLess(Num(10), lastOpt.arg) THEN Num(10)
              ELSE lastOpt.arg

\* The fields whose defaults are documented, and the options writing them.
DocumentedFields ==
    {"Name", "Version", "Environment", "Endpoint", "BatchTimeout", "ExportTimeout",
     "SamplingRatio", "Debug", "Headers", "ResourceAttrs"}

Field(c, f) ==
    CASE f = "Name" -> c.Service.Name
      [] f = "Version" -> c.Service.Version
      [] f = "Environment" -> c.Service.Environment
      [] f = "Endpoint" -> c.Exporter.Endpoint
      [] f = "BatchTimeout" -> c.Exporter.BatchTimeout
      [] f = "ExportTimeout" -> c.Exporter.ExportTimeout
      [] f = "SamplingRatio" -> c.Tracing.SamplingRatio
      [] f = "Debug" -> c.Debug
      [] f = "Headers" -> c.Exporter.Headers
      [] f = "ResourceAttrs" -> c.ResourceAttrs

DocumentedDefault(f) ==
    CASE f = "Name" -> "svc"
      [] f = "Version" -> "1.0.0"
      [] f = "Environment" -> "development"
      [] f = "Endpoint" -> "localhost:4317"
      [] f = "BatchTimeout" -> 5
      [] f = "ExportTimeout" -> 30
      [] f = "SamplingRatio" -> Num(10)
      [] f = "Debug" -> FALSE
      [] f = "Headers" -> <<>>
      [] f = "ResourceAttrs" -> <<>>

Targets(name) ==
    CASE name = "WithServiceInfo" -> {"Name", "Version", "Environment"}
      [] name = "WithEndpoint" -> {"Endpoint"}
      [] name \in {"WithHeader", "WithHeaders"} -> {"Headers"}
      [] name = "WithExportTimeout" -> {"ExportTimeout"}
      [] name = "WithBatchTimeout" -> {"BatchTimeout"}
      [] name = "WithSamplingRatio" -> {"SamplingRatio"}
      [] name \in {"WithResourceAttr", "WithResourceAttrs"} -> {"ResourceAttrs"}
      [] name = "WithDebug" -> {"Debug"}
      [] name \in {"WithInsecure", "WithTLSCredentials"} -> {"Security"}
      [] OTHER -> {}

Untargeted(f) == \A name \in OptionNames : applied[name] > 0 => f \notin Targets(name)

\* C18: every documented field that none of the applied options targets
\* holds its documented default, and applying an option changes none of the
\* documented fields it does not target.
C18_DefaultsKept ==
    /\ [](\A f \in DocumentedFields :
             Untargeted(f) => Field(conf, f) = DocumentedDefault(f))
    /\ [][\A f \in DocumentedFields :
             f \notin Targets(lastOpt'.name) => Field(conf', f) = Field(conf, f)]_vars

\* WithServiceInfo and two options that target no exporter field were
\* applied: the service is the one given, the exporter settings are the
\* defaults.
C18_Witness ==
    /\ nOpts = 3
    /\ applied["WithServiceInfo"] = 1 /\ applied["WithDebug"] = 1
    /\ applied["WithSamplingRatio"] = 1
    /\ conf.Service.Version = "2.0.0"
    /\ conf.Debug
    /\ conf.Exporter = [Endpoint |-> "localhost:4317", BatchTimeout |-> 5,
                        ExportTimeout |-> 30, Headers |-> <<>>]
    /\ conf.ResourceAttrs = <<>>

EntriesOf(which) == {i \in 1..Len(entries) : entries[i].map = which}

\* The union of the entries supplied for a map, a later entry replacing an
\* earlier one with the same key.
LastSupplied(which) ==
    LET keys == {entries[i].key : i \in EntriesOf(which)}
        latest(k) == CHOOSE i \in EntriesOf(which) :
                       /\ entries[i].key = k
                       /\ \A j \in EntriesOf(which) : entries[j].key = k => j <= i
    IN [k \in keys |-> entries[latest(k)].val]

\* C19: the headers and the resource attributes are the union of all entries
\* supplied by WithHeader/WithHeaders and WithResourceAttr/WithResourceAttrs
\* in the order the options were given, the later value winning for a
\* repeated key; a scalar field holds what the option applied last gave it.
C19_MapsAccumulate ==
    /\ conf.Exporter.Headers = LastSupplied("Headers")
    /\ conf.ResourceAttrs = LastSupplied("ResourceAttrs")
    /\ lastOpt.name = "WithEndpoint" => conf.Exporter.Endpoint = lastOpt.arg
    /\ lastOpt.name = "WithExportTimeout" => conf.Exporter.ExportTimeout = lastOpt.arg
    /\ lastOpt.name = "WithBatchTimeout" => conf.Exporter.BatchTimeout = lastOpt.arg
    /\ lastOpt.name = "WithDebug" => conf.Debug = lastOpt.arg
    /\ lastOpt.name = "WithInsecure" => conf.Security.Insecure = lastOpt.arg
    /\ lastOpt.name = "WithTLSCredentials" => conf.Security.TLSCredentials = lastOpt.arg
    /\ lastOpt.name = "WithServiceInfo" =>
          conf.Service = [Name |-> lastOpt.arg.name, Version |-> lastOpt.arg.version,
                          Environment |-> lastOpt.arg.environment]

\* WithHeaders came last and replaced the value of a key supplied before,
\* while a key it did not carry was kept.
C19_Witness ==
    /\ lastOpt.name = "WithHeaders"
    /\ DOMAIN lastOpt.arg = {"k1"}
    /\ DOMAIN conf.Exporter.Headers = {"k1", "k2"}
    /\ conf.Exporter.Headers["k1"] = lastOpt.arg["k1"]
    /\ \E i \in EntriesOf("Headers") :
          /\ entries[i].key = "k1"
          /\ entries[i].val # conf.Exporter.Headers["k1"]

(***************************************************************************)
(* Properties of Span                                                      *)
(***************************************************************************)
\* C10: EndWithError(nil) sets status Ok "success", records no error and
\* then ends the span; EndWithError(err) records err once, sets status Error
\* with err's message and then ends the span.  The status is set before End.
C10_EndWithError ==
    lastOp.op = "EndWithError" =>
        LET s == spans[lastOp.span]
            pre == lastOp.pre
        IN /\ s.ends = pre.ends + 1
           /\ s.attributes = pre.attributes /\ s.events = pre.events
           /\ IF lastOp.err = NilErr
              THEN /\ s.status = [code |-> "Ok", description |-> "success"]
                   /\ s.errors = pre.errors
                   /\ s.log = pre.log \o <<"SetStatus", "End">>
              ELSE /\ s.status = [code |-> "Error",
                                  description |-> ErrorMessage(lastOp.err)]
                   /\ s.errors = Append(pre.errors, lastOp.err)
                   /\ s.log = pre.log \o <<"RecordError", "SetStatus", "End">>

\* EndWithError(err) with a non-nil err on a span that was not ended before.
C10_Witness ==
    /\ lastOp.op = "EndWithError"
    /\ lastOp.err # NilErr
    /\ lastOp.pre.ends = 0
    /\ spans[lastOp.span].ends = 1
    /\ spans[lastOp.span].status.code = "Error"
    /\ Len(spans[lastOp.span].errors) = 1

(***************************************************************************)
(* Properties of the scoped paths                                          *)
(***************************************************************************)
\* C11: WithSpan invokes the operation exactly once, with the new span and
\* a context descending from the caller's; when the operation returns, the
\* span is what EndWithError makes of it for the returned error (nil: status
\* Ok "success"; an error: that error recorded and status Error), ended once,
\* and WithSpan returns exactly what the operation returned.
C11_WithSpanPropagates ==
    lastRun.path = "WithSpan" =>
        /\ Len(lastRun.fnCalls) = 1
        /\ lastRun.fnCalls[1].span = lastRun.id
        /\ lastRun.fnCalls[1].ctx = [parent |-> lastRun.ctx, span |-> lastRun.id]
        /\ lastRun.outcome # Panic =>
              /\ lastRun.ret = lastRun.outcome
              /\ lastRun.span = EndWithError(lastRun.afterFn, lastRun.outcome)
              /\ lastRun.span.ends = 1
              /\ IF lastRun.outcome = NilErr
                 THEN /\ lastRun.span.status = [code |-> "Ok", description |-> "success"]
                      /\ lastRun.span.errors = <<>>
                 ELSE /\ lastRun.span.status.code = "Error"
                      /\ lastRun.span.errors = <<lastRun.outcome>>

\* The operation set the span's status itself and returned an error, which
\* WithSpan returned.
C11_Witness ==
    /\ lastRun.path = "WithSpan"
    /\ lastRun.outcome \in Errors
    /\ lastRun.ret = lastRun.outcome
    /\ lastRun.afterFn.status.code = "Error"
    /\ lastRun.span.errors = <<lastRun.outcome>>
    /\ lastRun.span.ends = 1

InFlight(route) ==
    {g \in Requests : reqs[g].pc = "serving" /\ reqs[g].route = route}

\* C12: the span of every finished run of WithSpan, Handler or Trace was
\* ended exactly once, whether the wrapped operation returned nil, returned
\* an error or panicked; the span of a request still in Handler is not ended.
C12_SpanEndedOnce ==
    /\ lastRun.path # "none" =>
          /\ lastRun.outcome \in Outcomes
          /\ lastRun.span.ends = 1
    /\ \A g \in Requests : reqs[g].pc # "idle" => reqs[g].span.ends = 0

\* The handler of one request panicked and its span was ended, while another
\* request is still being served.
C12_Witness ==
    /\ lastRun.path = "Handler"
    /\ lastRun.outcome = Panic
    /\ lastRun.span.ends = 1
    /\ \E g \in Requests : reqs[g].pc = "serving" /\ reqs[g].span.ends = 0

\* C13: when the wrapped handler wrote a status S >= 400 and returned, the
\* request added nothing in total to the active request gauge, incremented
\* the request counter once, labelled with S in decimal, recorded one
\* duration, and its span has status Error; with no request left in flight
\* the gauge is back at zero.
C13_ErrorStatusRecorded ==
    (/\ lastRun.path = "Handler"
     /\ lastRun.outcome = NilErr
     /\ lastRun.wrote
     /\ lastRun.statusCode >= StatusBadRequest)
    => /\ lastRun.gauge = 0
       /\ lastRun.counted = <<Itoa(lastRun.statusCode)>>
       /\ lastRun.observed = 1
       /\ lastRun.span.status.code = "Error"
       /\ lastRun.span.ends = 1
       /\ InFlight(lastRun.route) = {} =>
             metrics.HTTPActiveRequests[lastRun.route] = 0

\* A request answered with 400 finished with no other request in flight.
C13_Witness ==
    /\ lastRun.path = "Handler"
    /\ lastRun.outcome = NilErr
    /\ lastRun.wrote
    /\ lastRun.statusCode = StatusBadRequest
    /\ lastRun.counted = <<"400">>
    /\ lastRun.span.status.code = "Error"
    /\ \A g \in Requests : reqs[g].pc = "idle"
    /\ metrics.HTTPActiveRequests[lastRun.route] = 0

\* C14: under any interleaving the active request gauge of an attribute set
\* equals the number of requests in flight with it, each of which has added
\* exactly 1; it is never negative and is 0 when none is in flight; a
\* finished request, returned or panicked, has added 0 in total.
C14_GaugeCountsInFlight ==
    /\ \A route \in Routes :
          /\ metrics.HTTPActiveRequests[route] = Cardinality(InFlight(route))
          /\ metrics.HTTPActiveRequests[route] >= 0
          /\ InFlight(route) = {} => metrics.HTTPActiveRequests[route] = 0
    /\ \A g \in Requests :
          reqs[g].gauge = IF reqs[g].pc = "idle" THEN 0 ELSE 1
    /\ lastRun.path = "Handler" => lastRun.gauge = 0

\* Two requests for one route were in flight together; one panicked and has
\* left, the other is still counted.
C14_Witness ==
    /\ lastRun.path = "Handler"
    /\ lastRun.outcome = Panic
    /\ lastRun.gauge = 0
    /\ Cardinality(InFlight(lastRun.route)) = 1
    /\ metrics.HTTPActiveRequests[lastRun.route] = 1

(***************************************************************************)
(* Properties of dbTracer.Trace and the database wrappers                  *)
(***************************************************************************)
\* C15: when the function passed to Trace returns an error, Trace still
\* increments the query counter once and records one duration, records the
\* error once on the span with status Error and the error's message, ends
\* the span, and returns that error.
C15_FailedQueryCounted ==
    (lastRun.path = "Trace" /\ lastRun.fnErr \in Errors)
    => /\ lastRun.queries = 1
       /\ lastRun.durations = 1
       /\ lastRun.span.errors = <<lastRun.fnErr>>
       /\ lastRun.span.status = [code |-> "Error",
                                 description |-> ErrorMessage(lastRun.fnErr)]
       /\ lastRun.span.ends = 1
       /\ lastRun.ret = lastRun.fnErr

\* ExecContext on a TracedDB failed.
C15_Witness ==
    /\ lastRun.path = "Trace"
    /\ lastRun.recv = "TracedDB" /\ lastRun.method = "ExecContext"
    /\ lastRun.fnErr = "e1"
    /\ lastRun.queries = 1 /\ lastRun.durations = 1
    /\ lastRun.returned.err = "e1"

\* C16: every call of a traced method of TracedDB, TracedStmt or TracedTx
\* calls Trace once and the method of the same name on the database handle
\* once, starts one span named "db.query" and ends it once, and, when the
\* database operation returns, increments the query counter once and
\* records one duration.
C16_OneTracePerCall ==
    (lastRun.path = "Trace" /\ lastRun.recv # "dbTracer")
    => /\ Len(lastRun.traces) = 1
       /\ Len(lastRun.underlying) = 1
       /\ lastRun.underlying[1].method = lastRun.method
       /\ lastRun.underlying[1].handle = Handle(lastRun.recv)
       /\ lastRun.name = "db.query"
       /\ lastRun.span.ends = 1
       /\ lastRun.outcome # Panic =>
             /\ lastRun.queries = 1
             /\ lastRun.durations = 1

\* Commit on a TracedTx, traced with the query text "COMMIT".
C16_Witness ==
    /\ lastRun.path = "Trace"
    /\ lastRun.recv = "TracedTx" /\ lastRun.method = "Commit"
    /\ lastRun.traces = <<[ctx |-> Background, query |-> "COMMIT"]>>
    /\ Len(lastRun.underlying) = 1
    /\ lastRun.queries = 1

\* The value a wrapper returns, without the TracedStmt or TracedTx around it.
Unwrap(value) == [value EXCEPT !.wrapper = None, !.query = None]

\* C17: for every call of a wrapper method, the database handle receives
\* the call the caller would have made on it directly, with the same
\* context, query and arguments, and the caller gets the value and the
\* error (or the panic) that call produced; a prepared statement or a
\* transaction comes back inside its wrapper.
C17_WrappersObservational ==
    (lastRun.path = "Trace" /\ lastRun.recv # "dbTracer")
    => LET direct == DirectCall(lastRun.recv, lastRun.method, lastRun.in,
                                lastRun.outcome)
       IN /\ lastRun.underlying = direct.underlying
          /\ Unwrap(lastRun.returned.value) = direct.value
          /\ lastRun.returned.err = direct.err

\* QueryRowContext whose row carries an error: the row is returned as it
\* is, and Trace saw no error.
C17_Witness ==
    /\ lastRun.path = "Trace"
    /\ lastRun.method = "QueryRowContext"
    /\ lastRun.outcome \in Errors
    /\ lastRun.returned.value = Value("row", lastRun.outcome, None, None)
    /\ lastRun.fnErr = NilErr
    /\ lastRun.span.status.code = "Unset"

(***************************************************************************)
(* Properties of NewCommonMetrics                                          *)
(***************************************************************************)
CommonOrder ==
    <<"HTTPRequestsTotal", "HTTPRequestDuration", "HTTPActiveRequests",
      "DBConnectionsActive", "DBQueriesTotal", "DBQueryDuration", "ErrorsTotal",
      "StartTime">>

\* C20: NewCommonMetrics asks the registry for its instruments in the fixed
\* order, stopping at the first error: it then returns a nil bundle with
\* that error and the meter holds nothing registered after the failing one;
\* without an error it made all eight registrations and every handle of the
\* bundle is set to an instrument of the meter.
C20_BootstrapFailsFast ==
    cm.n > 0 =>
        LET l == cm.last
            k == Len(l.calls)
            new == {cm.created[i].metricName : i \in Len(l.before) + 1..Len(cm.created)}
        IN /\ k \in 1..NumCommon
           /\ l.calls = SubSeq(CommonOrder, 1, k)
           /\ l.nil <=> l.err # NoError
           /\ l.err # NoError =>
                 /\ l.bundle = NoBundle
                 /\ l.err = "failed to create "
                            \o generateMetricName(cm.registry.prefix,
                                   PassedName(cm.registry.prefix, k))
                 /\ \A j \in k..NumCommon :
                       generateMetricName(cm.registry.prefix,
                           PassedName(cm.registry.prefix, j)) \notin new
           /\ l.err = NoError =>
                 /\ k = NumCommon
                 /\ \A field \in CommonFields : l.bundle[field] \in 1..Len(cm.created)
                 /\ \A i \in 1..NumCommon :
                       cm.created[l.bundle[CommonInstruments[i].field]].kind
                           = CommonInstruments[i].kind

\* The first call failed at the third instrument; the second found the first
\* two registered, created two more and failed at the fifth.
C20_Witness ==
    /\ cm.n = 2
    /\ cm.last.nil
    /\ Len(cm.last.before) = 2
    /\ Len(cm.last.calls) = 5
    /\ Len(cm.created) = 4

(***************************************************************************)
(* Order of the calls on a span                                            *)
(***************************************************************************)
\* The calls a scoped path has made on its span come before the End call:
\* End is the last entry of the span's call log and occurs nowhere else.
EndIsLast(log) ==
    /\ Len(log) > 0
    /\ \A i \in 1..Len(log) : log[i] = "End" <=> i = Len(log)

\* C21: in Tracer.WithSpan, HTTPMiddleware.Handler and dbTracer.Trace every
\* attribute, status and error call the library makes on the span comes
\* before the span's End call: a finished run's call log has End as its
\* last entry only, and a request still inside Handler has a span that has
\* not been ended.
C21_MutationsBeforeEnd ==
    /\ lastRun.path # "none" => EndIsLast(lastRun.span.log)
    /\ \A g \in Requests :
          reqs[g].pc = "serving" =>
              \A i \in 1..Len(reqs[g].span.log) : reqs[g].span.log[i] # "End"

\* A WithSpan whose operation failed: the error is recorded and the status
\* set, and only then the span is ended.
C21_Witness ==
    /\ lastRun.path = "WithSpan"
    /\ lastRun.outcome \in Errors
    /\ lastRun.afterFn.log = <<>>
    /\ lastRun.span.log = <<"RecordError", "SetStatus", "End">>

(***************************************************************************)
(* The status HTTPMiddleware records                                       *)
(***************************************************************************)
\* C22: in HTTPMiddleware.Handler the recorded status is 200 when the
\* wrapped handler never calls WriteHeader; the span has status Error
\* exactly when the recorded status is at least 400, and for a recorded
\* status below 400 no status is set on the span at all.
C22_StatusDecidesError ==
    (lastRun.path = "Handler" /\ lastRun.outcome # Panic) =>
        /\ ~lastRun.wrote => lastRun.statusCode = StatusOK
        /\ lastRun.span.status.code = "Error" <=> lastRun.statusCode >= 400
        /\ lastRun.statusCode >= 400 =>
               lastRun.span.status.description = "HTTP Request Failed"
        /\ lastRun.statusCode < 400 =>
               /\ lastRun.span.status = NewSpan.status
               /\ \A i \in 1..Len(lastRun.span.log) :
                      lastRun.span.log[i] # "SetStatus"

\* A handler that returned without calling WriteHeader: 200 is recorded
\* and the span's status is left as it was started.
C22_Witness ==
    /\ lastRun.path = "Handler"
    /\ lastRun.outcome # Panic
    /\ ~lastRun.wrote
    /\ lastRun.statusCode = StatusOK
    /\ lastRun.counted = <<"200">>
    /\ lastRun.span.log = <<"SetAttributes", "End">>

\* C28: the status code HTTPMiddleware records on the span and in the
\* request counter's status_code label is the status code sent to the
\* client, also when the wrapped handler calls WriteHeader more than once.
C28_RecordedIsSent ==
    (lastRun.path = "Handler" /\ lastRun.outcome # Panic) =>
        /\ lastRun.statusCode = lastRun.sent
        /\ lastRun.counted = <<Itoa(lastRun.sent)>>

(***************************************************************************)
(* Gauge callbacks                                                         *)
(***************************************************************************)
\* The callbacks the meter holds for a gauge name: those of the gauges it
\* created under that name.
GaugeCallbacks(metricName) ==
    {meter.instruments[i].callback :
        i \in {j \in 1..Len(meter.instruments) :
                  /\ meter.instruments[j].kind = "gauges"
                  /\ meter.instruments[j].metricName = metricName}}

\* C23: MetricRegistry.Gauge deduplicates like the other kinds.  A Gauge
\* call for a name that is already registered returns the handle of the
\* first gauge and hands nothing to the meter, so the meter holds one
\* callback per gauge name: that of the call that created the gauge.
C23_GaugeKeepsFirstCallback ==
    /\ \A metricName \in QualifiedNames : Cardinality(GaugeCallbacks(metricName)) <= 1
    /\ \A metricName \in DOMAIN registry.gauges :
          /\ meter.instruments[registry.gauges[metricName]].kind = "gauges"
          /\ meter.instruments[registry.gauges[metricName]].metricName = metricName
    /\ (last.kind = "gauges" /\ last.hit) =>
          /\ last.ok
          /\ last.handle = registry.gauges[last.metricName]
          /\ meter.calls[<<"gauges", last.metricName>>].ok = 1
          /\ GaugeCallbacks(last.metricName) =
                 {meter.instruments[last.handle].callback}

\* A second Gauge call for a registered name, made with another callback:
\* it got the first handle, and the callback it supplied is not one of the
\* meter's.
C23_Witness ==
    /\ last.kind = "gauges"
    /\ last.hit
    /\ last.callback # NoCallback
    /\ last.callback # meter.instruments[last.handle].callback
    /\ last.callback \notin GaugeCallbacks(last.metricName)

(***************************************************************************)
(* The dbTracer of a TracedStmt and of a TracedTx                          *)
(***************************************************************************)
\* C24: PrepareContext and BeginTx, on TracedDB and on TracedTx, return a
\* nil wrapper and the database's error when the prepare or begin failed;
\* when it succeeded they return a TracedStmt or TracedTx holding the very
\* dbTracer of the wrapper they were called on, so every wrapper holds the
\* one dbTracer and every call records under its database name and type.
C24_WrappersShareTracer ==
    /\ (/\ lastRun.path = "Trace"
        /\ lastRun.method \in {"PrepareContext", "BeginTx"}
        /\ lastRun.outcome # Panic) =>
          IF lastRun.outcome # NilErr
          THEN /\ lastRun.returned = [value |-> NilValue, err |-> lastRun.outcome]
               /\ lastRun.wrapperTracer = None
          ELSE /\ lastRun.returned.err = NilErr
               /\ lastRun.returned.value.wrapper =
                      (IF lastRun.method = "BeginTx" THEN "TracedTx" ELSE "TracedStmt")
               /\ lastRun.wrapperTracer = lastRun.tracer
    /\ \A w \in wrappers.stmts \cup wrappers.txs : w.tracer = DBTracer
    /\ lastRun.path = "Trace" =>
          /\ lastRun.tracer = DBTracer
          /\ lastRun.attrs = [db_name |-> DBTracer.dbName, db_type |-> DBTracer.dbType]

\* A call on a TracedStmt that PrepareContext returned: it is counted by
\* the dbTracer of the TracedDB.
C24_Witness ==
    /\ lastRun.path = "Trace"
    /\ lastRun.recv = "TracedStmt"
    /\ lastRun.tracer = DBTracer
    /\ lastRun.queries = 1
    /\ lastRun.attrs.db_name = "orders"

(***************************************************************************)
(* The names NewCommonMetrics creates                                      *)
(***************************************************************************)
\* C25: with a non-empty prefix P, every instrument NewCommonMetrics has
\* the meter create is one of the eight, of its kind, and is created under
\* P, an underscore and its base name: the prefix is applied once.
C25_PrefixAppliedOnce ==
    cm.registry.prefix # "" =>
        \A j \in 1..Len(cm.created) :
            \E i \in 1..NumCommon :
                /\ CommonInstruments[i].kind = cm.created[j].kind
                /\ cm.created[j].metricName =
                       cm.registry.prefix \o "_" \o CommonInstruments[i].name

(***************************************************************************)
(* Transport security and failed initialization                            *)
(***************************************************************************)
\* C26: after any sequence of options, a config that is not insecure has
\* TLS credentials that are not nil, and every OTLP exporter built without
\* the insecure transport was given credentials that are not nil.
C26_SecureHasCredentials ==
    /\ ~conf.Security.Insecure => conf.Security.TLSCredentials # NilCredentials
    /\ \A sig \in SignalSet :
          (/\ sdk[sig].built
           /\ sdk[sig].exporter = "otlp"
           /\ sdk[sig].credentials # "insecure") =>
              sdk[sig].credentials # NilCredentials

\* C27: when NewProvider has failed at the metrics or the logging stage,
\* every provider that call built has been shut down and no provider is
\* installed as a process-wide default.
C27_FailedInitLeavesNothing ==
    (/\ phase = "returned"
     /\ result.err # NoError
     /\ result.failAt \in {"metric exporter", "log exporter", "zap logger"}) =>
        \A sig \in SignalSet :
            /\ sdk[sig].built => sdk[sig].shutdowns >= 1
            /\ globals[sig] = Nil

(***************************************************************************)
(* The registry lock                                                       *)
(***************************************************************************)
\* mu is held by the one goroutine that is between its Lock and its return
\* (at the lookup or at the create), and by nobody otherwise.
LockDiscipline ==
    /\ registry.mu \in Goroutines \cup {Unlocked}
    /\ \A g \in Goroutines : registry.mu = g <=> gs[g].pc \in {"lookup", "create"}

\* C29: under any interleaving of Counter, Histogram, UpDownCounter and
\* Gauge calls on one registry, mu is held across the whole check-then-
\* create sequence and is released on every return path (hit, creation
\* success, creation error); the registry does not deadlock, and every
\* call that has started returns, provided the meter's create returns.
\* A run makes finitely many calls, so that every call returns is stated
\* as: from some point on every goroutine is back from its calls for good.
C29_LockReleasedCallsReturn ==
    /\ []LockDiscipline
    /\ <>[](\A g \in Goroutines : gs[g].pc = "idle")

\* A call has just returned the meter's creation error while another
\* goroutine waits for mu: mu is free for it.
C29_Witness ==
    /\ last.kind # "none" /\ ~last.ok
    /\ registry.mu = Unlocked
    /\ \E g \in Goroutines : gs[g].pc = "lock"

(***************************************************************************)
(* The four caches                                                         *)
(***************************************************************************)
\* Every cache entry is an instrument the meter created for that kind and
\* that name.
CachesPartitioned ==
    \A kind \in Kinds : \A metricName \in DOMAIN registry[kind] :
        /\ registry[kind][metricName] \in 1..Len(meter.instruments)
        /\ meter.instruments[registry[kind][metricName]].kind = kind
        /\ meter.instruments[registry[kind][metricName]].metricName = metricName

\* A step keeps every entry of every cache as it is, and adds entries to
\* one cache at most.
CachesOnlyGrow ==
    /\ \A kind \in Kinds : \A metricName \in DOMAIN registry[kind] :
          /\ metricName \in DOMAIN registry'[kind]
          /\ registry'[kind][metricName] = registry[kind][metricName]
    /\ Cardinality({kind \in Kinds : registry'[kind] # registry[kind]}) <= 1

\* C30: each kind's cache of a MetricRegistry only grows: an entry, once
\* made, is never removed or replaced; and the four caches are independent:
\* a name requested under two kinds has one instrument per kind, each
\* created for its own kind.
C30_CachesGrowIndependently ==
    /\ []CachesPartitioned
    /\ [][CachesOnlyGrow]_vars

\* One qualified name is cached under two kinds, with two instruments.
C30_Witness ==
    \E k1 \in Kinds, k2 \in Kinds :
        /\ k1 # k2
        /\ \E metricName \in DOMAIN registry[k1] \cap DOMAIN registry[k2] :
              registry[k1][metricName] # registry[k2][metricName]

====
